---- MODULE Spec2Model ----
(***************************************************************************)
(* Model of AtxPowerSwitch.c (PIC16F527, XC8): a momentary ATX power       *)
(* button drives the ATX power-on line.  The processor sleeps between      *)
(* watchdog time-outs; every wake cycle clears the watchdog, polls the     *)
(* switch input once, calls OnButtonPressed if the button is pressed and   *)
(* goes back to sleep.                                                     *)
(*                                                                         *)
(* int and unsigned int are 16 bits wide on this target, so the hold       *)
(* counter is kept modulo 2^16 and its conversion to the int parameter of  *)
(* OnButtonPressed is the two's complement reinterpretation.               *)
(***************************************************************************)
EXTENDS Integers, Naturals, FiniteSets, Sequences, TLC

(***************************************************************************)
(* Bound of the environment: the button is released after at most         *)
(* MaxHold + 1 consecutive pressed samples.                                *)
(***************************************************************************)
MaxHold == 131100

(***************************************************************************)
(* Program constants.                                                      *)
(***************************************************************************)
IntBits == 16
IntModulus == 2 ^ IntBits
IntMax == (2 ^ (IntBits - 1)) - 1

POWER_OFF_TIME_MS == 500
WDT_MS == 18 * 2
TICK_RATE_HZ == 1000 \div WDT_MS
POWER_OFF_COUNT == POWER_OFF_TIME_MS \div TICK_RATE_HZ

\* TRISC values written by the two macros, and the RC7 bit of a port byte.
TRISC_RC7_INPUT == 128
TRISC_ALL_OUTPUT == 0
Bit7(b) == (b \div 128) % 2

\* Values TRISC may hold when main is entered: nothing in the program sets
\* it before line 148, so both "RC7 driven" and "all pins inputs" are kept.
TrisAtReset == {0, 255}

VARIABLES
    pc,               \* position of the processor in main
    poweredOn,        \* global: supply on (1) or off (0)
    powerOffArmed,    \* static local of OnButtonPressed
    lastButtonState,  \* local of main
    holdCount,        \* local of main, unsigned int
    handed,           \* parameter holdCount of the latest OnButtonPressed call
    TRISC,            \* direction register of port C
    PORTC,            \* output latch of port C
    sample,           \* observer: what the latest poll of this run read
    held,             \* observer: further pressed samples since the press edge
    startedOn,        \* observer: the supply was on at the edge of this hold
    wdtReset          \* observer: restarted by the watchdog, not yet cleared

vars == <<pc, poweredOn, powerOffArmed, lastButtonState, holdCount, handed,
          TRISC, PORTC, sample, held, startedOn, wdtReset>>

StartPcs == {"main", "power_off", "option"}
LoopPcs == {"clrwdt", "poll", "sleep", "asleep", "nop"}

\* The part of the state OnButtonPressed and the power macros act on.
Supply == [TRISC |-> TRISC, poweredOn |-> poweredOn,
           powerOffArmed |-> powerOffArmed]

\* unsigned int -> int, as XC8 converts it.
ToInt(u) == IF u > IntMax THEN u - IntModulus ELSE u

\* Variants of the two macros with a slip in them, used to show that the
\* properties below depend on the macros.
POWER_OFF_FlagOnly(s) == [s EXCEPT !.poweredOn = 0]
POWER_OFF_Toggle(s) ==
    [s EXCEPT !.TRISC = (s.TRISC + TRISC_RC7_INPUT) % 256, !.poweredOn = 0]
POWER_ON_PinOnly(s) == [s EXCEPT !.TRISC = TRISC_ALL_OUTPUT]

\* #define POWER_OFF  TRISC = 0b10000000; poweredOn = 0;
POWER_OFF(s) == [s EXCEPT !.TRISC = TRISC_RC7_INPUT, !.poweredOn = 0]

\* #define POWER_ON   TRISC = 0b00000000; poweredOn = 1;
POWER_ON(s) == [s EXCEPT !.TRISC = TRISC_ALL_OUTPUT, !.poweredOn = 1]

\* OnButtonPressed with the power-on made to wait for the hold threshold as
\* the power-off does.
OnButtonPressed_HoldToPowerOn(s, hc) ==
    IF s.poweredOn # 0
    THEN LET a == IF hc = 0 THEN [s EXCEPT !.powerOffArmed = 1] ELSE s
         IN  IF a.powerOffArmed # 0 /\ hc >= POWER_OFF_COUNT
             THEN [POWER_OFF(a) EXCEPT !.powerOffArmed = 0]
             ELSE a
    ELSE IF hc >= POWER_OFF_COUNT THEN POWER_ON(s) ELSE s

\* OnButtonPressed with the press edge flipping the arm flag instead of
\* setting it.
OnButtonPressed_ArmToggles(s, hc) ==
    IF s.poweredOn # 0
    THEN LET a == IF hc = 0
                  THEN [s EXCEPT !.powerOffArmed = 1 - s.powerOffArmed]
                  ELSE s
         IN  IF a.powerOffArmed # 0 /\ hc >= POWER_OFF_COUNT
             THEN [POWER_OFF(a) EXCEPT !.powerOffArmed = 0]
             ELSE a
    ELSE IF hc = 0 THEN POWER_ON(s) ELSE s

\* OnButtonPressed without line 115: the power-off leaves the arm flag set.
OnButtonPressed_KeepsArmed(s, hc) ==
    IF s.poweredOn # 0
    THEN LET a == IF hc = 0 THEN [s EXCEPT !.powerOffArmed = 1] ELSE s
         IN  IF a.powerOffArmed # 0 /\ hc >= POWER_OFF_COUNT
             THEN POWER_OFF(a)
             ELSE a
    ELSE IF hc = 0 THEN POWER_ON(s) ELSE s

\* void OnButtonPressed(int holdCount)
OnButtonPressed(s, hc) ==
    IF s.poweredOn # 0
    THEN LET a == IF hc = 0 THEN [s EXCEPT !.powerOffArmed = 1] ELSE s
         IN  IF a.powerOffArmed # 0 /\ hc >= POWER_OFF_COUNT
             THEN [POWER_OFF(a) EXCEPT !.powerOffArmed = 0]
             ELSE a
    ELSE IF hc = 0 THEN POWER_ON(s) ELSE s

\* The edge test of lines 173-176 left out: the count is never reset.
EdgeReset_Never(last, count) == count

\* Lines 173-176: holdCount as main leaves it before the call, reset to 0
\* when the button was not pressed in the previous cycle.
EdgeReset(last, count) == IF last = 0 THEN 0 ELSE count

\* holdCount++ on an unsigned int.
Increment(count) == (count + 1) % IntModulus

\* Lines 172-181, the branch taken when the button is pressed, from the
\* supply state s, the remembered level and the hold count: the edge reset,
\* the call OnButtonPressed(holdCount++) and lastButtonState = 1.
PressedBranch(s, last, count) ==
    LET c == EdgeReset(last, count)
    IN  [supply |-> OnButtonPressed(s, ToInt(c)),
         handed |-> ToInt(c),
         holdCount |-> Increment(c),
         lastButtonState |-> 1]

\* The input taken as active high.
Reading_ActiveHigh(level) == IF level = 1 THEN "pressed" ELSE "released"

\* SWITCH_INPUT is active low: 1 reads "not pressed", 0 reads "pressed".
Reading(level) == IF level = 1 THEN "released" ELSE "pressed"

Init ==
    /\ pc = "main"
    /\ poweredOn = 0
    /\ powerOffArmed = 0
    /\ lastButtonState = 0
    /\ holdCount = 0
    /\ handed = 0
    /\ TRISC \in TrisAtReset
    /\ PORTC \in TrisAtReset
    /\ sample = "none"
    /\ held = 0
    /\ startedOn = FALSE
    /\ wdtReset = FALSE

\* main with its two locals declared without initialisers.
MainEntry_NoInitialisers ==
    /\ pc = "main"
    /\ pc' = "power_off"
    /\ PORTC' = 0
    /\ UNCHANGED <<poweredOn, powerOffArmed, lastButtonState, holdCount,
                   handed, TRISC, sample, held, startedOn, wdtReset>>

\* main, lines 134-145: the locals' initialisers and the port set-up.
MainEntry ==
    /\ pc = "main"
    /\ pc' = "power_off"
    /\ lastButtonState' = 0
    /\ holdCount' = 0
    /\ PORTC' = 0
    /\ UNCHANGED <<poweredOn, powerOffArmed, handed, TRISC, sample, held,
                   startedOn, wdtReset>>

\* main without its line 148.
InitialPowerOff_Skipped ==
    /\ pc = "power_off"
    /\ pc' = "option"
    /\ UNCHANGED <<poweredOn, powerOffArmed, lastButtonState, holdCount,
                   handed, TRISC, PORTC, sample, held, startedOn, wdtReset>>

\* main, line 148: start with the supply off.
InitialPowerOff ==
    /\ pc = "power_off"
    /\ pc' = "option"
    /\ LET s == POWER_OFF(Supply)
       IN  /\ TRISC' = s.TRISC
           /\ poweredOn' = s.poweredOn
           /\ powerOffArmed' = s.powerOffArmed
    /\ UNCHANGED <<lastButtonState, holdCount, handed, PORTC, sample, held,
                   startedOn, wdtReset>>

\* main, line 157: OPTION assigns the prescaler to the watchdog; the loop
\* is entered.
SetOption ==
    /\ pc = "option"
    /\ pc' = "clrwdt"
    /\ UNCHANGED <<poweredOn, powerOffArmed, lastButtonState, holdCount,
                   handed, TRISC, PORTC, sample, held, startedOn, wdtReset>>

\* Line 163: CLRWDT().
ClearWatchdog ==
    /\ pc = "clrwdt"
    /\ pc' = "poll"
    /\ wdtReset' = FALSE
    /\ UNCHANGED <<poweredOn, powerOffArmed, lastButtonState, holdCount,
                   handed, TRISC, PORTC, sample, held, startedOn>>

\* The released branch with the hold count cleared on release.
PollReleased_ClearsCount(level) ==
    /\ pc = "poll"
    /\ level = 1
    /\ pc' = "sleep"
    /\ lastButtonState' = 0
    /\ holdCount' = 0
    /\ sample' = Reading(level)
    /\ held' = 0
    /\ startedOn' = FALSE
    /\ UNCHANGED <<poweredOn, powerOffArmed, handed, TRISC, PORTC, wdtReset>>

\* Lines 166-169: the input reads 1, the button is not pressed.
PollReleased(level) ==
    /\ pc = "poll"
    /\ level = 1
    /\ pc' = "sleep"
    /\ lastButtonState' = 0
    /\ sample' = Reading(level)
    /\ held' = 0
    /\ startedOn' = FALSE
    /\ UNCHANGED <<poweredOn, powerOffArmed, holdCount, handed, TRISC, PORTC,
                   wdtReset>>

\* Lines 166, 170-182: the input reads 0, the button is pressed: the hold
\* count is reset on the edge, handed to OnButtonPressed and incremented.
PollPressed(level) ==
    /\ pc = "poll"
    /\ level # 1
    /\ sample = "pressed" => held < MaxHold
    /\ pc' = "sleep"
    /\ LET r == PressedBranch(Supply, lastButtonState, holdCount)
       IN  /\ handed' = r.handed
           /\ holdCount' = r.holdCount
           /\ TRISC' = r.supply.TRISC
           /\ poweredOn' = r.supply.poweredOn
           /\ powerOffArmed' = r.supply.powerOffArmed
           /\ lastButtonState' = r.lastButtonState
    /\ sample' = Reading(level)
    /\ held' = IF sample = "pressed" THEN held + 1 ELSE 0
    /\ startedOn' = IF sample = "pressed" THEN startedOn ELSE poweredOn # 0
    /\ UNCHANGED <<PORTC, wdtReset>>

\* Line 185: SLEEP().
Sleep ==
    /\ pc = "sleep"
    /\ pc' = "asleep"
    /\ UNCHANGED <<poweredOn, powerOffArmed, lastButtonState, holdCount,
                   handed, TRISC, PORTC, sample, held, startedOn, wdtReset>>

\* The watchdog disabled in the configuration word: nothing ends the SLEEP.
WatchdogWake_Disabled ==
    /\ pc = "asleep"
    /\ FALSE
    /\ UNCHANGED vars

\* Lines 184-185: the watchdog times out during SLEEP and execution
\* resumes after it.
WatchdogWake ==
    /\ pc = "asleep"
    /\ pc' = "nop"
    /\ UNCHANGED <<poweredOn, powerOffArmed, lastButtonState, holdCount,
                   handed, TRISC, PORTC, sample, held, startedOn, wdtReset>>

\* The loop with CLRWDT() left outside it: the loop starts over at the poll.
Nop_SkipsClear ==
    /\ pc = "nop"
    /\ pc' = "poll"
    /\ UNCHANGED <<poweredOn, powerOffArmed, lastButtonState, holdCount,
                   handed, TRISC, PORTC, sample, held, startedOn, wdtReset>>

\* Line 189: NOP(), then the loop starts over.
Nop ==
    /\ pc = "nop"
    /\ pc' = "clrwdt"
    /\ UNCHANGED <<poweredOn, powerOffArmed, lastButtonState, holdCount,
                   handed, TRISC, PORTC, sample, held, startedOn, wdtReset>>

\* WDTE = ON, line 42: the program stalls while awake, the watchdog is not
\* cleared in time and resets the device.  Execution restarts at main; the
\* C start-up code clears the statics again (lines 90 and 100), main's
\* locals keep what the RAM held until line 134 initialises them.
WatchdogReset ==
    /\ pc # "asleep"
    /\ pc' = "main"
    /\ wdtReset' = TRUE
    /\ poweredOn' = 0
    /\ powerOffArmed' = 0
    /\ handed' = 0
    /\ TRISC' \in TrisAtReset
    /\ sample' = "none"
    /\ held' = 0
    /\ startedOn' = FALSE
    /\ UNCHANGED <<lastButtonState, holdCount, PORTC>>

Next ==
    \/ MainEntry
    \/ InitialPowerOff
    \/ SetOption
    \/ ClearWatchdog
    \/ \E level \in {0, 1} : PollReleased(level)
    \/ \E level \in {0, 1} : PollPressed(level)
    \/ Sleep
    \/ WatchdogWake
    \/ Nop

\* The program as written: the loop never stalls.
Spec == Init /\ [][Next]_vars

NextReset == Next \/ WatchdogReset

\* The program with watchdog resets caused by stalls.
SpecReset == Init /\ [][NextReset]_vars

(***************************************************************************)
(* Vocabulary of the properties.                                           *)
(***************************************************************************)

\* RC7 is driven low (supply enabled) / is a high-impedance input.
OutputEnabled == Bit7(TRISC) = 0 /\ Bit7(PORTC) = 0
OutputDisabled == Bit7(TRISC) = 1

\* The step that polls the input, and what it samples.
PollStep == pc = "poll" /\ pc' = "sleep"
PressedStep == PollStep /\ sample' = "pressed"
PressEdgeStep == PressedStep /\ sample # "pressed"

\* In a loop state the observers describe the latest completed poll: it was
\* the press edge of a hold (begun with the supply off / on), or a later
\* sample of one.
InLoop == pc \in LoopPcs
AfterEdgeWhileOff == InLoop /\ sample = "pressed" /\ held = 0 /\ ~startedOn
HoldFromOn == InLoop /\ sample = "pressed" /\ startedOn

\* The threshold the specification derives: hold time over cycle period.
SpecThreshold == POWER_OFF_TIME_MS \div WDT_MS

(***************************************************************************)
(* C1: after a press edge observed while the supply is off, the supply is  *)
(* on and the output driven enabled from the end of that cycle up to the   *)
(* poll of the following cycle, with no hold required.                     *)
(***************************************************************************)
C1_PowerOnAtEdge == AfterEdgeWhileOff => (poweredOn = 1 /\ OutputEnabled)

C1_Witness ==
    pc = "clrwdt" /\ sample = "pressed" /\ held = 0 /\ ~startedOn
    /\ poweredOn = 1 /\ TRISC = TRISC_ALL_OUTPUT

(***************************************************************************)
(* C2: in a hold that starts with a press edge while the supply is on, the *)
(* supply goes off in exactly the cycle whose hold count equals the        *)
(* threshold: in that cycle, and in no other cycle of the hold.            *)
(***************************************************************************)
C2_OffExactlyAtThreshold ==
    [][(PressedStep /\ startedOn')
          => ((poweredOn = 1 /\ poweredOn' = 0) <=> held' = POWER_OFF_COUNT)]_vars

(***************************************************************************)
(* C3: the threshold is the hold time divided by the cycle period, 500/36  *)
(* = 13: a hold begun by a press edge while on has powered the supply off  *)
(* once its hold count is 13.                                              *)
(***************************************************************************)
C3_ThresholdIsThirteen ==
    (HoldFromOn /\ held = SpecThreshold) => poweredOn = 0

(***************************************************************************)
(* C4: a hold begun while on and released before the threshold leaves the  *)
(* supply on; every press edge restarts the hold count at 0; and the       *)
(* supply goes off only in a pressed cycle that ends a continuous hold of  *)
(* at least the threshold length.                                          *)
(***************************************************************************)
C4_PartialHoldHarmless ==
    [][/\ (HoldFromOn /\ held < POWER_OFF_COUNT) => poweredOn = 1
       /\ (PollStep /\ HoldFromOn /\ held < POWER_OFF_COUNT
             /\ sample' = "released")
            => (poweredOn' = 1 /\ TRISC' = TRISC)
       /\ PressEdgeStep => (handed' = 0 /\ holdCount' = 1)
       /\ (poweredOn = 1 /\ poweredOn' = 0)
            => (PressedStep /\ held' >= POWER_OFF_COUNT)]_vars

C4_Witness ==
    pc = "sleep" /\ sample = "released" /\ poweredOn = 1
    /\ powerOffArmed = 1 /\ holdCount = 5

(***************************************************************************)
(* C5: while the supply is off it goes on only in a cycle that is a press  *)
(* edge (pressed now, not pressed in the previous cycle).                  *)
(***************************************************************************)
C5_OnOnlyAtEdge ==
    [][(poweredOn = 0 /\ poweredOn' = 1) => PressEdgeStep]_vars

(***************************************************************************)
(* C6: from the initial power-off onward the output mirrors poweredOn:     *)
(* RC7 is a low output exactly when poweredOn is 1 and an input exactly    *)
(* when poweredOn is 0.                                                    *)
(***************************************************************************)
C6_OutputMirrorsState ==
    pc \notin {"main", "power_off"}
        => /\ poweredOn \in {0, 1}
           /\ poweredOn = 1 <=> OutputEnabled
           /\ poweredOn = 0 <=> OutputDisabled

C6_Witness ==
    pc = "asleep" /\ poweredOn = 1 /\ TRISC = TRISC_ALL_OUTPUT /\ PORTC = 0

(***************************************************************************)
(* C7: when the first wake cycle of a run is about to sample the button,   *)
(* the supply is off, the output disabled, and the arm flag, the           *)
(* remembered button level and the hold count are in their initial state.  *)
(***************************************************************************)
C7_StartsOff ==
    (pc \in {"clrwdt", "poll"} /\ sample = "none")
        => /\ poweredOn = 0
           /\ OutputDisabled
           /\ powerOffArmed = 0
           /\ lastButtonState = 0
           /\ holdCount = 0

C7_Witness ==
    pc = "poll" /\ sample = "none" /\ poweredOn = 0
    /\ TRISC = TRISC_RC7_INPUT /\ ~wdtReset

(***************************************************************************)
(* C8: POWER_ON applied while the supply is on, and POWER_OFF applied      *)
(* while it is off, change nothing; applying either twice equals applying  *)
(* it once.                                                                *)
(***************************************************************************)
C8_CommandIdempotent ==
    pc \notin {"main", "power_off"}
        => /\ poweredOn = 1 => POWER_ON(Supply) = Supply
           /\ poweredOn = 0 => POWER_OFF(Supply) = Supply
           /\ POWER_ON(POWER_ON(Supply)) = POWER_ON(Supply)
           /\ POWER_OFF(POWER_OFF(Supply)) = POWER_OFF(Supply)

C8_Witness ==
    pc = "nop" /\ poweredOn = 1 /\ POWER_ON(Supply) = Supply
    /\ POWER_OFF(POWER_OFF(Supply)) # Supply

(***************************************************************************)
(* C9: after a watchdog reset the program is in its start-up, no sample    *)
(* taken, with the supply off, and the output is disabled from the initial *)
(* power-off on: the restarted loop is entered with the supply off.        *)
(***************************************************************************)
C9_WatchdogFailSafe ==
    wdtReset
        => /\ pc \in StartPcs \cup {"clrwdt"}
           /\ sample = "none"
           /\ poweredOn = 0
           /\ pc \in {"option", "clrwdt"} => OutputDisabled

C9_Witness ==
    wdtReset /\ pc = "clrwdt" /\ poweredOn = 0 /\ TRISC = TRISC_RC7_INPUT

(***************************************************************************)
(* C10: in a cycle that sampled the button pressed, the hold count handed  *)
(* to OnButtonPressed is the number of consecutive pressed cycles since    *)
(* the press edge.                                                         *)
(***************************************************************************)
C10_HandedIsHoldLength ==
    (InLoop /\ sample = "pressed") => handed = held

(***************************************************************************)
(* C11: within one continuous hold the supply state changes at most once:  *)
(* a hold begun while off is never turned off again by a later sample of   *)
(* the same hold, and a hold begun while on is never turned on again by a  *)
(* later sample of the same hold.                                          *)
(***************************************************************************)
C11_OneChangePerHold ==
    [][(PressedStep /\ sample = "pressed")
          => /\ ~startedOn => poweredOn' = poweredOn
             /\ startedOn => ~(poweredOn = 0 /\ poweredOn' = 1)]_vars

(***************************************************************************)
(* C12: a cycle that samples the button released changes neither the       *)
(* supply state, the output, the arm flag nor the hold counter, makes no   *)
(* call of OnButtonPressed (its parameter keeps the value of the latest    *)
(* call), and sets the remembered level to not-pressed; the steps between  *)
(* two polls change none of these either, so a supply that is on stays on  *)
(* through any number of released cycles.                                  *)
(***************************************************************************)
C12_ReleasedCycleFrame ==
    [][/\ (PollStep /\ sample' = "released")
            => /\ UNCHANGED <<poweredOn, TRISC, PORTC, powerOffArmed,
                              holdCount, handed>>
               /\ lastButtonState' = 0
       /\ (InLoop /\ ~PollStep)
            => UNCHANGED <<poweredOn, TRISC, PORTC, powerOffArmed, holdCount,
                           handed, lastButtonState>>]_vars

C12_Witness ==
    pc = "sleep" /\ sample = "released" /\ lastButtonState = 0
    /\ poweredOn = 1 /\ powerOffArmed = 0 /\ holdCount = 1 /\ OutputEnabled

(***************************************************************************)
(* C13: the arm flag is set in every press-edge cycle observed while the   *)
(* supply is on, which leaves the supply on; it goes from false to true in *)
(* no other cycle; it goes from true to false only in a cycle that powers  *)
(* the supply off, and every such cycle clears it.                         *)
(***************************************************************************)
C13_ArmedOnlyAtEdge ==
    [][/\ (PressEdgeStep /\ poweredOn = 1)
            => (powerOffArmed' = 1 /\ poweredOn' = 1)
       /\ (powerOffArmed = 0 /\ powerOffArmed' = 1)
            => (PressEdgeStep /\ poweredOn = 1)
       /\ (powerOffArmed = 1 /\ powerOffArmed' = 0)
            => (poweredOn = 1 /\ poweredOn' = 0)
       /\ (poweredOn = 1 /\ poweredOn' = 0) => powerOffArmed' = 0]_vars

(***************************************************************************)
(* C14: a stale arm flag and a leftover hold count are inert.  Take any    *)
(* reachable state with the button released and the supply on, and a twin  *)
(* that differs from it only in powerOffArmed and holdCount.  The two have *)
(* the same supply state and output; a released cycle changes neither of   *)
(* them beyond lastButtonState (C12); and the first pressed cycle takes    *)
(* both to the very same state, hence to the same states ever after.       *)
(***************************************************************************)
TwinCounts ==
    {0, 1, POWER_OFF_COUNT - 1, POWER_OFF_COUNT, IntMax, IntMax + 1,
     IntModulus - 1}

C14_StaleArmInert ==
    (InLoop /\ lastButtonState = 0 /\ poweredOn = 1)
        => \A a \in {0, 1}, h \in TwinCounts :
              LET twin == [Supply EXCEPT !.powerOffArmed = a]
              IN  /\ twin.poweredOn = poweredOn /\ twin.TRISC = TRISC
                  /\ PressedBranch(twin, lastButtonState, h)
                       = PressedBranch(Supply, lastButtonState, holdCount)

C14_Witness ==
    pc = "poll" /\ sample = "released" /\ lastButtonState = 0
    /\ poweredOn = 1 /\ powerOffArmed = 1 /\ holdCount = 3

(***************************************************************************)
(* C15: once a poll has been made, the remembered level lastButtonState is *)
(* 1 exactly when the latest sample read pressed (input low); and a        *)
(* pressed cycle resets the hold count before the call, handing 0, exactly *)
(* when the previous cycle did not sample pressed, and otherwise hands the *)
(* count carried over from the previous cycle.                             *)
(***************************************************************************)
C15_EdgeTracker ==
    [][/\ PollStep => (lastButtonState' = 1 <=> sample' = "pressed")
       /\ (InLoop /\ sample # "none")
            => (lastButtonState = 1 <=> sample = "pressed")
       /\ PressedStep
            => /\ (lastButtonState = 0) <=> (sample # "pressed")
               /\ handed' = IF sample # "pressed" THEN 0 ELSE ToInt(holdCount)
               /\ holdCount' = Increment(IF sample # "pressed" THEN 0
                                         ELSE holdCount)]_vars

C15_Witness ==
    pc = "sleep" /\ sample = "pressed" /\ lastButtonState = 1 /\ held = 2
    /\ handed = 2 /\ holdCount = 3

(***************************************************************************)
(* C16: a wake cycle runs its steps once each and in order: the watchdog   *)
(* is cleared, then the input is polled (the only step that takes a        *)
(* sample, and the only one that calls OnButtonPressed, which it does only *)
(* when the sample reads pressed), then the processor sleeps until the     *)
(* watchdog wakes it.  The poll is reached from the clear and from nowhere *)
(* else, whatever the state and the sample, so by the time of the sample   *)
(* the watchdog has been cleared in this cycle.                            *)
(***************************************************************************)
C16_CycleOrder ==
    [][/\ pc' # "main"
            => /\ pc = "clrwdt" => (pc' = "poll" /\ ~wdtReset')
               /\ pc = "poll" => pc' = "sleep"
               /\ pc = "sleep" => pc' = "asleep"
               /\ pc = "asleep" => pc' = "nop"
               /\ pc = "nop" => pc' = "clrwdt"
       /\ pc' = "poll" => pc = "clrwdt"
       /\ pc' = "sleep" => pc = "poll"
       /\ (pc' # "main" /\ (sample' # sample \/ held' # held)) => PollStep
       /\ (pc' # "main" /\ (handed' # handed \/ holdCount' # holdCount
                              \/ poweredOn' # poweredOn
                              \/ powerOffArmed' # powerOffArmed)
             /\ pc \in LoopPcs)
            => PressedStep
       /\ pc \in {"poll", "sleep", "asleep", "nop"} => ~wdtReset]_vars

C16_Witness ==
    pc = "asleep" /\ sample = "pressed" /\ held = 1 /\ handed = 1
    /\ ~wdtReset

(***************************************************************************)
(* C17: when the first poll of a run (after power-up or after a watchdog   *)
(* restart) samples the button pressed, the cycle is a press edge: 0 is    *)
(* handed to OnButtonPressed and the supply is on, the output enabled, at  *)
(* the end of that poll.                                                   *)
(***************************************************************************)
C17_FirstCyclePress ==
    [][(PollStep /\ sample = "none" /\ sample' = "pressed")
          => /\ handed' = 0
             /\ held' = 0
             /\ poweredOn' = 1
             /\ Bit7(TRISC') = 0 /\ Bit7(PORTC') = 0]_vars

C17_Witness ==
    pc = "sleep" /\ sample = "pressed" /\ held = 0 /\ ~startedOn
    /\ handed = 0 /\ holdCount = 1 /\ lastButtonState = 1
    /\ poweredOn = 1 /\ powerOffArmed = 0 /\ OutputEnabled

(***************************************************************************)
(* C19: the arm flag is never set while the supply is off: powerOffArmed   *)
(* being 1 implies poweredOn is 1, so a press edge observed while off      *)
(* starts from a disarmed state.                                           *)
(***************************************************************************)
C19_ArmedImpliesOn ==
    /\ powerOffArmed \in {0, 1}
    /\ powerOffArmed = 1 => poweredOn = 1

C19_Witness ==
    pc = "clrwdt" /\ powerOffArmed = 1 /\ poweredOn = 1
    /\ sample = "pressed" /\ held = POWER_OFF_COUNT - 1

(***************************************************************************)
(* The program on a processor that keeps executing and a watchdog timer    *)
(* that keeps running: every step of main that can be taken is eventually  *)
(* taken, and the processor is eventually woken from SLEEP.                *)
(***************************************************************************)
Poll == \E level \in {0, 1} : PollReleased(level) \/ PollPressed(level)

SpecLive ==
    /\ Spec
    /\ WF_vars(MainEntry) /\ WF_vars(InitialPowerOff) /\ WF_vars(SetOption)
    /\ WF_vars(ClearWatchdog) /\ WF_vars(Poll) /\ WF_vars(Sleep)
    /\ WF_vars(WatchdogWake) /\ WF_vars(Nop)

(***************************************************************************)
(* C18: the wake loop never stops: from every state the running cycle      *)
(* reaches its sleep point, and from the sleep point a next cycle begins   *)
(* and polls, so there are infinitely many cycles.                         *)
(***************************************************************************)
C18_CyclesForever ==
    /\ []<>(pc = "asleep")
    /\ []<>(pc = "poll")
    /\ [](pc = "poll" => ENABLED PollReleased(1))
    /\ []((pc = "poll" /\ held < MaxHold) => ENABLED PollPressed(0))

C18_Witness ==
    pc = "poll" /\ sample = "pressed" /\ held = 3 /\ poweredOn = 1
====
